---- MODULE Spec2Model ----
(***************************************************************************)
(* Model of the Transmission RPC client (transmission_go_api.go) and of    *)
(* its command-line front end (package main).                              *)
(*                                                                         *)
(* Go strings on which the code computes (addresses, result strings,       *)
(* error texts) are sequences of one-character strings.  Strings that the  *)
(* code only stores, copies and compares whole (session tokens, user       *)
(* names, passwords, method names, torrent names) are TLA+ strings.        *)
(***************************************************************************)
EXTENDS Integers, Sequences, FiniteSets, TLC

\* ------------------------------------------------------------------------
\* Bounds of the model
\* ------------------------------------------------------------------------
MaxIds == 2         \* longest identifier / snapshot sequence passed to a call
MaxResultLen == 2   \* longest daemon result string other than "success"
MaxFrags == 3       \* address inputs are made of at most MaxFrags fragments

\* ------------------------------------------------------------------------
\* Strings
\* ------------------------------------------------------------------------
HasPrefix(s, prefix) ==
    /\ Len(s) >= Len(prefix)
    /\ SubSeq(s, 1, Len(prefix)) = prefix

HasSuffix(s, suffix) ==
    /\ Len(s) >= Len(suffix)
    /\ SubSeq(s, Len(s) - Len(suffix) + 1, Len(s)) = suffix

RECURSIVE SeqsUpTo(_, _)
SeqsUpTo(S, n) ==
    IF n = 0 THEN {<<>>}
    ELSE LET shorter == SeqsUpTo(S, n - 1)
         IN shorter \cup {Append(s, e) : s \in shorter, e \in S}

RECURSIVE Concat(_)
Concat(ss) == IF ss = <<>> THEN <<>> ELSE Head(ss) \o Concat(Tail(ss))

csrfSessionHeader ==
    <<"X","-","T","r","a","n","s","m","i","s","s","i","o","n","-",
      "S","e","s","s","i","o","n","-","I","d">>

TR_STATUS_DOWNLOAD == 4
TR_STATUS_STOPPED == 16

httpLiteral == <<"h","t","t","p">>
httpScheme == <<"h","t","t","p",":","/","/">>
httpsScheme == <<"h","t","t","p","s",":","/","/">>
rpcPath ==
    <<"/","t","r","a","n","s","m","i","s","s","i","o","n","/","r","p","c">>
successLiteral == <<"s","u","c","c","e","s","s">>

\* fmt.Sprintf(format) with no operands, for formats made of letters and
\* '%': text is copied, "%%" prints "%", "%" followed by a verb v prints
\* "%!v(MISSING)" and a "%" that ends the format prints "%!(NOVERB)".
RECURSIVE Sprintf(_)
Sprintf(format) ==
    IF format = <<>> THEN <<>>
    ELSE IF Head(format) # "%" THEN <<Head(format)>> \o Sprintf(Tail(format))
    ELSE IF Len(format) = 1
         THEN <<"%","!","(","N","O","V","E","R","B",")">>
    ELSE IF format[2] = "%"
         THEN <<"%">> \o Sprintf(SubSeq(format, 3, Len(format)))
    ELSE <<"%","!", format[2], "(","M","I","S","S","I","N","G",")">>
             \o Sprintf(SubSeq(format, 3, Len(format)))

\* fmt.Errorf(format): an error whose text is Sprintf(format).
Errorf(format) == Sprintf(format)

\* ------------------------------------------------------------------------
\* The client object and its constructor
\* ------------------------------------------------------------------------
NoClient ==
    [address |-> <<>>, username |-> "", password |-> "", sessionId |-> ""]

NewAddress(address) ==
    LET a1 == IF ~HasPrefix(address, httpLiteral)
              THEN httpScheme \o address ELSE address
    IN IF ~HasSuffix(a1, rpcPath) THEN a1 \o rpcPath ELSE a1

New(address, username, password) ==
    [address |-> NewAddress(address), username |-> username,
     password |-> password, sessionId |-> ""]

\* ------------------------------------------------------------------------
\* Inputs
\* ------------------------------------------------------------------------
Callers == {1, 2}            \* goroutines that may use the one client
Usernames == {"", "user"}
Passwords == {"", "secret"}
SessionTokens == {"abc123", "def456"}

AddressFragments ==
    {httpLiteral, <<"s">>, <<":","/","/">>, <<"h","o","s","t">>,
     <<":","9","0","9","1">>, rpcPath, <<"/">>}
AddressInputs == {Concat(fs) : fs \in SeqsUpTo(AddressFragments, MaxFrags)}

\* Addresses of the clients on which calls are made.  They parse as URLs,
\* so http.NewRequest returns a request and no error in postRequest.
CallAddresses == {<<"h","o","s","t",":","9","0","9","1">>}

\* The identifiers of the daemon's torrents, and one snapshot value of each.
TorrentIds == {1, 2}
Torrents ==
    {[Id |-> i, Name |-> "a",
      Status |-> IF i = 1 THEN TR_STATUS_DOWNLOAD ELSE TR_STATUS_STOPPED] :
        i \in TorrentIds}
IdSeqs == SeqsUpTo(TorrentIds, MaxIds)
TorrentSeqs == SeqsUpTo(Torrents, MaxIds)

ResultAlphabet == {"e", "%"}
Results == {successLiteral} \cup SeqsUpTo(ResultAlphabet, MaxResultLen)

VARIABLES
    t,          \* the Transmission object
    newArgs,    \* the arguments New was (or will be) called with
    pc,         \* per caller: "idle", "post", "wait", "done"
    entry,      \* per caller: the exported method called, with its argument
    req,        \* per caller: the request envelope handed to doRPC
    sent,       \* per caller: HTTP requests posted by the call so far
    resps,      \* per caller: what came back for each of them
    decoded,    \* per caller: response bodies handed to the JSON decoder
    ret,        \* per caller: what the exported method returned
    flags,      \* command line flags
    mainpc,     \* position of main: "lib", "new", "dispatch", "call", "exit"
    invoked,    \* client operations main has invoked
    stdout,     \* lines main has printed
    exitCode    \* exit status of the process, -1 while running

vars == <<t, newArgs, pc, entry, req, sent, resps, decoded, ret,
          flags, mainpc, invoked, stdout, exitCode>>
cliVars == <<flags, mainpc, invoked, stdout, exitCode>>

\* ------------------------------------------------------------------------
\* Request envelopes and their JSON form
\* ------------------------------------------------------------------------
ListAllFields == <<
    "name", "id", "totalSize", "eta", "status", "percentDone",
    "activityDate", "addedDate", "bandwidthPriority", "comment",
    "corruptEver", "creator", "dateCreated", "desiredAvailable",
    "doneDate", "downloadDir", "downloadedEver", "downloadLimit",
    "downloadLimited", "error", "errorString", "eta", "etaIdle", "files",
    "fileStats", "hashString", "haveUnchecked", "haveValid",
    "honorsSessionLimits", "id", "isFinished", "isPrivate", "isStalled",
    "leftUntilDone", "magnetLink", "manualAnnounceTime",
    "maxConnectedPeers", "metadataPercentComplete", "name", "peerLimit",
    "percentDone", "pieces", "pieceCount", "pieceSize", "rateDownload",
    "rateUpload", "recheckProgress", "secondsDownloading",
    "secondsSeeding", "seedIdleLimit", "seedIdleMode", "seedRatioLimit",
    "seedRatioMode", "sizeWhenDone", "startDate", "status", "totalSize",
    "torrentFile", "uploadedEver", "uploadLimit", "uploadLimited",
    "uploadRatio", "webseedsSendingToUs"
    >>

NoRequest ==
    [type |-> "none", Method |-> "", Tag |-> 0, Ids |-> <<>>, Fields |-> <<>>]

\* getRequest{requestBase{"torrent-get", 1}, getRequestPayload{Fields}}
getRequest ==
    [type |-> "getRequest", Method |-> "torrent-get", Tag |-> 1,
     Ids |-> <<>>, Fields |-> ListAllFields]

\* torrentRequestsRequest{requestBase{method, 1}, payload{Ids: ids}}
torrentRequestsRequest(method, ids) ==
    [type |-> "torrentRequestsRequest", Method |-> method, Tag |-> 1,
     Ids |-> ids, Fields |-> <<>>]

\* json.Marshal of a request envelope: a JSON object is the set of its keys
\* with the values of the keys it has.  Every field but "arguments" is
\* omitempty, so an empty string, a zero and an empty list leave no key.
Marshal(r) ==
    [keys |-> (IF r.Method # "" THEN {"method"} ELSE {})
              \cup (IF r.Tag # 0 THEN {"tag"} ELSE {})
              \cup {"arguments"},
     method |-> r.Method,
     tag |-> r.Tag,
     arguments |->
        [keys |-> (IF Len(r.Ids) # 0 THEN {"ids"} ELSE {})
                  \cup (IF Len(r.Fields) # 0 THEN {"fields"} ELSE {}),
         ids |-> r.Ids,
         fields |-> r.Fields]]

\* httpReq with credentials attached whenever a user name is configured.
httpReqAuthOnUsername(tr, r) ==
    [Method |-> "POST",
     URL |-> tr.address,
     Header |-> [csrf |-> <<tr.sessionId>>],
     BasicAuth |->
        IF tr.username # ""
        THEN [ok |-> TRUE, username |-> tr.username, password |-> tr.password]
        ELSE [ok |-> FALSE, username |-> "", password |-> ""],
     Body |-> Marshal(r)]

\* httpReq that sets the session header only when a token is stored.
httpReqOmitEmptyToken(tr, r) ==
    [Method |-> "POST",
     URL |-> tr.address,
     Header |-> [csrf |-> IF tr.sessionId = "" THEN <<>>
                          ELSE <<tr.sessionId>>],
     BasicAuth |->
        IF tr.username # "" /\ tr.password # ""
        THEN [ok |-> TRUE, username |-> tr.username, password |-> tr.password]
        ELSE [ok |-> FALSE, username |-> "", password |-> ""],
     Body |-> Marshal(r)]

\* The *http.Request that postRequest builds from the client's fields.
httpReq(tr, r) ==
    [Method |-> "POST",
     URL |-> tr.address,
     Header |-> [csrf |-> <<tr.sessionId>>],
     BasicAuth |->
        IF tr.username # "" /\ tr.password # ""
        THEN [ok |-> TRUE, username |-> tr.username, password |-> tr.password]
        ELSE [ok |-> FALSE, username |-> "", password |-> ""],
     Body |-> Marshal(r)]

\* ------------------------------------------------------------------------
\* What the transport hands back
\* ------------------------------------------------------------------------
TransportErrors ==
    {<<"c","o","n","n","e","c","t","i","o","n"," ",
       "r","e","f","u","s","e","d">>}
readError == <<"u","n","e","x","p","e","c","t","e","d"," ","E","O","F">>
decodeError == <<"E","O","F">>

\* A JSON object of a response body: its keys and their values.
Object(keys, result, torrents) ==
    [keys |-> keys, result |-> result, tag |-> 1, torrents |-> torrents]

NoObject == Object({}, <<>>, <<>>)

\* Envelopes with and without each of the keys, with every result string.
Envelopes ==
    {NoObject, Object({"tag"}, <<>>, <<>>), Object({"arguments"}, <<>>, <<>>),
     Object({"result", "tag", "arguments"}, <<"e">>, <<>>),
     Object({"result", "tag", "arguments"}, successLiteral, <<>>)}
    \cup {Object({"result", "tag"}, r, <<>>) : r \in Results}

\* The JSON objects of a "torrents" array: one with the keys of the fields
\* ListAll prints, one with "id" alone.
JsonTorrents ==
    {[keys |-> {"id", "name", "status"}, id |-> 1, name |-> "a",
      status |-> TR_STATUS_DOWNLOAD],
     [keys |-> {"id"}, id |-> 2, name |-> "", status |-> 0]}
JsonTorrentSeqs == SeqsUpTo(JsonTorrents, MaxIds)

\* The successful answers to torrent-get: every list of torrents.
Listings ==
    {Object({"result", "tag", "arguments"}, successLiteral, ts) :
        ts \in JsonTorrentSeqs}

Unreadable == [kind |-> "unreadable", err |-> readError, json |-> NoObject]
Malformed == [kind |-> "malformed", err |-> decodeError, json |-> NoObject]

\* The bodies the daemon answers a lifecycle request with, and the bodies
\* it answers torrent-get with.
Bodies ==
    {Unreadable, Malformed}
    \cup {[kind |-> "object", err |-> <<>>, json |-> o] : o \in Envelopes}
ListingBodies ==
    Bodies \cup {[kind |-> "object", err |-> <<>>, json |-> o] : o \in Listings}

\* The body a 409 comes with: the daemon's HTML page.
ConflictBodies == {Malformed}

\* httpResp.Header[csrfSessionHeader]: whether the key is there, its values.
NoHeader == [ok |-> FALSE, vals |-> <<>>]
Headers ==
    {NoHeader, [ok |-> TRUE, vals |-> <<>>],
     [ok |-> TRUE, vals |-> <<"abc123", "def456">>]}
    \cup {[ok |-> TRUE, vals |-> <<v>>] : v \in SessionTokens}

StatusCodes == {200, 409, 500}

Failure(e) ==
    [kind |-> "error", err |-> e, StatusCode |-> 0, Header |-> NoHeader,
     Body |-> Unreadable]
Response(status, header, body) ==
    [kind |-> "response", err |-> <<>>, StatusCode |-> status,
     Header |-> header, Body |-> body]

\* Outcomes of one cli.Do whose response has one of the given bodies: a
\* transport error, a 409 with any session header, any other status with
\* any body, and a success that carries a session header all the same.
OutcomesWith(bodies) ==
    {Failure(e) : e \in TransportErrors}
    \cup {Response(409, h, b) : h \in Headers, b \in ConflictBodies}
    \cup {Response(s, NoHeader, b) : s \in StatusCodes \ {409}, b \in bodies}
    \cup {Response(200, [ok |-> TRUE, vals |-> <<"def456">>],
                   [kind |-> "object", err |-> <<>>,
                    json |-> Object({"result", "tag"}, successLiteral, <<>>)])}

LifecycleOutcomes == OutcomesWith(Bodies)
ListingOutcomes == OutcomesWith(ListingBodies)

\* Outcomes of one cli.Do for a request of the given type.
Outcomes(type) ==
    IF type = "getRequest" THEN ListingOutcomes ELSE LifecycleOutcomes

\* ------------------------------------------------------------------------
\* Decoding and the results of the exported methods
\* ------------------------------------------------------------------------
\* One element of "torrents" decoded into a Torrent: a field takes the
\* value of the key its tag names and stays zero when the key is absent.
decodeTorrent(j) ==
    [Id |-> IF "id" \in j.keys THEN j.id ELSE 0,
     Name |-> IF "name" \in j.keys THEN j.name ELSE "",
     Status |-> IF "status" \in j.keys THEN j.status ELSE 0]

RECURSIVE decodeTorrents(_)
decodeTorrents(js) ==
    IF js = <<>> THEN <<>>
    ELSE <<decodeTorrent(Head(js))>> \o decodeTorrents(Tail(js))

\* dec.Decode into &getResponse{} / &torrentRequestsResponse{}: the embedded
\* *responseBase is allocated only if the object has one of its keys, and
\* Arguments (getResponse only) only if the object has "arguments".  This is
\* encoding/json as it was when the code was written; from Go 1.10 on it
\* does not allocate an embedded pointer to an unexported struct type and
\* returns an error for an object that has one of the keys of responseBase.
Decode(o, type) ==
    [responseBase |->
        [nil |-> (o.keys \cap {"result", "tag"} = {}),
         Result |-> IF "result" \in o.keys THEN o.result ELSE <<>>],
     Arguments |->
        [nil |-> ~(type = "getRequest" /\ "arguments" \in o.keys),
         Torrents |-> IF type = "getRequest" /\ "arguments" \in o.keys
                      THEN decodeTorrents(o.torrents) ELSE <<>>]]

NoReturn == [kind |-> "none", err |-> <<>>, torrents |-> <<>>]
Ok(torrents) == [kind |-> "ok", err |-> <<>>, torrents |-> torrents]
Error(text) == [kind |-> "error", err |-> text, torrents |-> <<>>]
Panic == [kind |-> "panic", err |-> <<>>, torrents |-> <<>>]

\* ListAllResult that returns each torrent once, by its identifier.
RECURSIVE uniqueById(_, _)
uniqueById(torrents, seen) ==
    IF torrents = <<>> THEN <<>>
    ELSE IF Head(torrents).Id \in seen
    THEN uniqueById(Tail(torrents), seen)
    ELSE <<Head(torrents)>>
         \o uniqueById(Tail(torrents), seen \cup {Head(torrents).Id})
ListAllResultUnique(resp) ==
    IF resp.responseBase.nil THEN Panic
    ELSE IF resp.responseBase.Result # successLiteral
         THEN Error(Errorf(resp.responseBase.Result))
    ELSE IF resp.Arguments.nil THEN Panic
    ELSE Ok(uniqueById(resp.Arguments.Torrents, {}))

\* ListAll after doRPC returned nil.
ListAllResult(resp) ==
    IF resp.responseBase.nil THEN Panic
    ELSE IF resp.responseBase.Result # successLiteral
         THEN Error(Errorf(resp.responseBase.Result))
    ELSE IF resp.Arguments.nil THEN Panic
    ELSE Ok(resp.Arguments.Torrents)

\* torrentRequests after doRPC returned nil.
torrentRequestsResult(resp) ==
    IF resp.responseBase.nil THEN Panic
    ELSE IF resp.responseBase.Result # successLiteral
         THEN Error(Errorf(resp.responseBase.Result))
    ELSE Ok(<<>>)

MethodResult(type, resp) ==
    IF type = "getRequest" THEN ListAllResult(resp)
    ELSE torrentRequestsResult(resp)

\* The loop of torrentsToIds: append the Id of each torrent in turn.
RECURSIVE appendIds(_, _)
appendIds(ids, torrents) ==
    IF torrents = <<>> THEN ids
    ELSE appendIds(Append(ids, Head(torrents).Id), Tail(torrents))

\* The loop of torrentsToIds, skipping an Id that is in ids already.
RECURSIVE appendIdsOnce(_, _)
appendIdsOnce(ids, torrents) ==
    IF torrents = <<>> THEN ids
    ELSE IF \E i \in 1..Len(ids) : ids[i] = Head(torrents).Id
    THEN appendIdsOnce(ids, Tail(torrents))
    ELSE appendIdsOnce(Append(ids, Head(torrents).Id), Tail(torrents))

\* torrentsToIds that lists the identifier of each torrent once.
torrentsToIdsOnce(torrents) == appendIdsOnce(<<>>, torrents)

torrentsToIds(torrents) == appendIds(<<>>, torrents)

\* ------------------------------------------------------------------------
\* Steps of a call
\* ------------------------------------------------------------------------
NoEntry == [op |-> "none", ids |-> <<>>, torrents |-> <<>>]

\* A nil dereference has ended the process.
Crashed == \E c \in Callers : ret[c].kind = "panic"

\* The method returns: the caller has its result.
Finish(c, result) ==
    /\ pc' = [pc EXCEPT ![c] = "done"]
    /\ ret' = [ret EXCEPT ![c] = result]

\* postRequest that sends the first request of a call without a token.
postRequestFreshFirst(c) ==
    /\ ~Crashed
    /\ pc[c] = "post"
    /\ sent' = [sent EXCEPT ![c] =
                    Append(@, httpReq(IF Len(sent[c]) = 0
                                      THEN [t EXCEPT !.sessionId = ""]
                                      ELSE t, req[c]))]
    /\ pc' = [pc EXCEPT ![c] = "wait"]
    /\ UNCHANGED <<t, newArgs, entry, req, resps, decoded, ret, cliVars>>

\* postRequest that gives the request of a retry the next tag.
postRequestNextTag(c) ==
    /\ ~Crashed
    /\ pc[c] = "post"
    /\ sent' = [sent EXCEPT ![c] =
                    Append(@, httpReq(t, IF Len(sent[c]) = 0 THEN req[c]
                                         ELSE [req[c] EXCEPT !.Tag = @ + 1]))]
    /\ pc' = [pc EXCEPT ![c] = "wait"]
    /\ UNCHANGED <<t, newArgs, entry, req, resps, decoded, ret, cliVars>>

\* postRequest: marshal the envelope, build the POST from the client's
\* fields as they are now, and hand it to the transport.
postRequest(c) ==
    /\ ~Crashed
    /\ pc[c] = "post"
    /\ sent' = [sent EXCEPT ![c] = Append(@, httpReq(t, req[c]))]
    /\ pc' = [pc EXCEPT ![c] = "wait"]
    /\ UNCHANGED <<t, newArgs, entry, req, resps, decoded, ret, cliVars>>

\* readAndDecode that treats a status of 400 and above as a failure.
readAndDecodeCheckStatus(c, r) ==
    IF r.StatusCode >= 400 \/ r.Body.kind = "unreadable"
    THEN /\ Finish(c, Error(r.Body.err))
         /\ UNCHANGED decoded
    ELSE /\ decoded' = [decoded EXCEPT ![c] = Append(@, r.Body)]
         /\ IF r.Body.kind = "malformed"
            THEN Finish(c, Error(r.Body.err))
            ELSE Finish(c, MethodResult(req[c].type,
                                        Decode(r.Body.json, req[c].type)))

\* doRPC from ioutil.ReadAll on, and the check of the result by the method.
readAndDecode(c, r) ==
    IF r.Body.kind = "unreadable"
    THEN /\ Finish(c, Error(r.Body.err))
         /\ UNCHANGED decoded
    ELSE /\ decoded' = [decoded EXCEPT ![c] = Append(@, r.Body)]
         /\ IF r.Body.kind = "malformed"
            THEN Finish(c, Error(r.Body.err))
            ELSE Finish(c, MethodResult(req[c].type,
                                        Decode(r.Body.json, req[c].type)))

\* sessionHeaderError that rejects only a header without values.
sessionHeaderErrorOnlyEmpty(h) ==
    IF ~h.ok
    THEN <<"4","0","9"," ","r","e","s","p","o","n","s","e"," ",
           "w","i","t","h","o","u","t"," ">> \o csrfSessionHeader
    ELSE IF Len(h.vals) = 0
    THEN <<"4","0","9"," ","w","i","t","h"," ">> \o csrfSessionHeader
         \o <<","," ","b","u","t"," ","v","a","l","u","e"," ",
              "i","s"," ","e","m","p","t","y">>
    ELSE <<>>

\* The checks doRPC makes on the session header of a 409: the text of the
\* error it returns, <<>> when it returns none.
sessionHeaderError(h) ==
    IF ~h.ok
    THEN <<"4","0","9"," ","r","e","s","p","o","n","s","e"," ",
           "w","i","t","h","o","u","t"," ">> \o csrfSessionHeader
    ELSE IF Len(h.vals) # 1
    THEN <<"4","0","9"," ","w","i","t","h"," ">> \o csrfSessionHeader
         \o <<","," ","b","u","t"," ","v","a","l","u","e"," ",
              "i","s"," ","e","m","p","t","y">>
    ELSE <<>>

\* storeSessionId that forgets the assignment.
storeSessionIdSkipped(tr, sessionId) == tr

\* t.sessionId = sessionId[0]
storeSessionId(tr, sessionId) == [tr EXCEPT !.sessionId = sessionId[1]]

\* doRPC, the first postRequest has returned r.
doRPCFirst(c, r) ==
    /\ ~Crashed
    /\ pc[c] = "wait"
    /\ Len(sent[c]) = 1
    /\ resps' = [resps EXCEPT ![c] = Append(@, r)]
    /\ IF r.kind = "error"
       THEN /\ Finish(c, Error(r.err))
            /\ UNCHANGED <<t, decoded>>
       ELSE IF r.StatusCode = 409
       THEN IF sessionHeaderError(r.Header) # <<>>
            THEN /\ Finish(c, Error(sessionHeaderError(r.Header)))
                 /\ UNCHANGED <<t, decoded>>
            ELSE /\ t' = storeSessionId(t, r.Header.vals)
                 /\ pc' = [pc EXCEPT ![c] = "post"]
                 /\ UNCHANGED <<decoded, ret>>
       ELSE /\ readAndDecode(c, r)
            /\ UNCHANGED t
    /\ UNCHANGED <<newArgs, entry, req, sent, cliVars>>

\* doRPCRetry that handles a 409 as the first attempt does.
doRPCRetryAgain(c, r) ==
    /\ ~Crashed
    /\ pc[c] = "wait"
    /\ Len(sent[c]) = 2
    /\ resps' = [resps EXCEPT ![c] = Append(@, r)]
    /\ IF r.kind = "error"
       THEN /\ Finish(c, Error(r.err))
            /\ UNCHANGED <<t, decoded>>
       ELSE IF r.StatusCode = 409 /\ sessionHeaderError(r.Header) = <<>>
       THEN /\ t' = storeSessionId(t, r.Header.vals)
            /\ pc' = [pc EXCEPT ![c] = "post"]
            /\ UNCHANGED <<decoded, ret>>
       ELSE /\ readAndDecode(c, r)
            /\ UNCHANGED t
    /\ UNCHANGED <<newArgs, entry, req, sent, cliVars>>

\* doRPCRetry that posts the request again after a transport error.
doRPCRetryOnError(c, r) ==
    /\ ~Crashed
    /\ pc[c] = "wait"
    /\ Len(sent[c]) = 2
    /\ resps' = [resps EXCEPT ![c] = Append(@, r)]
    /\ IF r.kind = "error"
       THEN /\ pc' = [pc EXCEPT ![c] = "post"]
            /\ UNCHANGED <<decoded, ret>>
       ELSE readAndDecode(c, r)
    /\ UNCHANGED <<t, newArgs, entry, req, sent, cliVars>>

\* doRPCRetry that stores the token of a 409 it gets for the retry.
doRPCRetryStoresToken(c, r) ==
    /\ ~Crashed
    /\ pc[c] = "wait"
    /\ Len(sent[c]) = 2
    /\ resps' = [resps EXCEPT ![c] = Append(@, r)]
    /\ IF r.kind = "error"
       THEN /\ Finish(c, Error(r.err))
            /\ UNCHANGED <<t, decoded>>
       ELSE /\ readAndDecode(c, r)
            /\ t' = IF r.StatusCode = 409 /\ sessionHeaderError(r.Header) = <<>>
                    THEN storeSessionId(t, r.Header.vals)
                    ELSE t
    /\ UNCHANGED <<newArgs, entry, req, sent, cliVars>>

\* doRPC, the postRequest of the retry has returned r.
doRPCRetry(c, r) ==
    /\ ~Crashed
    /\ pc[c] = "wait"
    /\ Len(sent[c]) = 2
    /\ resps' = [resps EXCEPT ![c] = Append(@, r)]
    /\ IF r.kind = "error"
       THEN /\ Finish(c, Error(r.err))
            /\ UNCHANGED decoded
       ELSE readAndDecode(c, r)
    /\ UNCHANGED <<t, newArgs, entry, req, sent, cliVars>>

\* ------------------------------------------------------------------------
\* The exported methods, up to their first request
\* ------------------------------------------------------------------------
ListAll(c) ==
    /\ req' = [req EXCEPT ![c] = getRequest]
    /\ pc' = [pc EXCEPT ![c] = "post"]
    /\ UNCHANGED <<t, sent, resps, decoded, ret>>

\* torrentRequests without the check for an empty identifier list.
torrentRequestsUnguarded(c, method, ids) ==
    /\ req' = [req EXCEPT ![c] = torrentRequestsRequest(method, ids)]
    /\ pc' = [pc EXCEPT ![c] = "post"]
    /\ UNCHANGED <<t, sent, resps, decoded, ret>>

torrentRequests(c, method, ids) ==
    IF Len(ids) = 0
    THEN /\ Finish(c, Ok(<<>>))
         /\ UNCHANGED <<t, req, sent, resps, decoded>>
    ELSE /\ req' = [req EXCEPT ![c] = torrentRequestsRequest(method, ids)]
         /\ pc' = [pc EXCEPT ![c] = "post"]
         /\ UNCHANGED <<t, sent, resps, decoded, ret>>

Start(c, ids) == torrentRequests(c, "torrent-start", ids)
StartTorrents(c, torrents) == Start(c, torrentsToIds(torrents))
\* StartNow that sends the method name of Start.
StartNowAsStart(c, ids) == torrentRequests(c, "torrent-start", ids)

StartNow(c, ids) == torrentRequests(c, "torrent-start-now", ids)
StartNowTorrents(c, torrents) == StartNow(c, torrentsToIds(torrents))
Stop(c, ids) == torrentRequests(c, "torrent-stop", ids)
StopTorrents(c, torrents) == Stop(c, torrentsToIds(torrents))
Verify(c, ids) == torrentRequests(c, "torrent-verify", ids)
VerifyTorrents(c, torrents) == Verify(c, torrentsToIds(torrents))
Reannounce(c, ids) == torrentRequests(c, "torrent-reannounce", ids)
ReannounceTorrents(c, torrents) == Reannounce(c, torrentsToIds(torrents))
Remove(c, ids) == torrentRequests(c, "torrent-remove", ids)
RemoveTorrents(c, torrents) == Remove(c, torrentsToIds(torrents))

\* ------------------------------------------------------------------------
\* A program that uses the library: each goroutine calls one exported
\* method at a time and takes its result before it calls the next.
\* ------------------------------------------------------------------------
Enter(c, op, ids, torrents) ==
    /\ ~Crashed
    /\ pc[c] = "idle"
    /\ entry' = [entry EXCEPT
                    ![c] = [op |-> op, ids |-> ids, torrents |-> torrents]]
    /\ UNCHANGED newArgs

CallListAll(c) ==
    /\ Enter(c, "ListAll", <<>>, <<>>)
    /\ ListAll(c)
    /\ UNCHANGED cliVars

CallStart(c) ==
    \E ids \in IdSeqs :
        /\ Enter(c, "Start", ids, <<>>)
        /\ Start(c, ids)
        /\ UNCHANGED cliVars

CallStartNow(c) ==
    \E ids \in IdSeqs :
        /\ Enter(c, "StartNow", ids, <<>>)
        /\ StartNow(c, ids)
        /\ UNCHANGED cliVars

CallStop(c) ==
    \E ids \in IdSeqs :
        /\ Enter(c, "Stop", ids, <<>>)
        /\ Stop(c, ids)
        /\ UNCHANGED cliVars

CallVerify(c) ==
    \E ids \in IdSeqs :
        /\ Enter(c, "Verify", ids, <<>>)
        /\ Verify(c, ids)
        /\ UNCHANGED cliVars

CallReannounce(c) ==
    \E ids \in IdSeqs :
        /\ Enter(c, "Reannounce", ids, <<>>)
        /\ Reannounce(c, ids)
        /\ UNCHANGED cliVars

CallRemove(c) ==
    \E ids \in IdSeqs :
        /\ Enter(c, "Remove", ids, <<>>)
        /\ Remove(c, ids)
        /\ UNCHANGED cliVars

CallStartTorrents(c) ==
    \E torrents \in TorrentSeqs :
        /\ Enter(c, "StartTorrents", <<>>, torrents)
        /\ StartTorrents(c, torrents)
        /\ UNCHANGED cliVars

CallStartNowTorrents(c) ==
    \E torrents \in TorrentSeqs :
        /\ Enter(c, "StartNowTorrents", <<>>, torrents)
        /\ StartNowTorrents(c, torrents)
        /\ UNCHANGED cliVars

CallStopTorrents(c) ==
    \E torrents \in TorrentSeqs :
        /\ Enter(c, "StopTorrents", <<>>, torrents)
        /\ StopTorrents(c, torrents)
        /\ UNCHANGED cliVars

CallVerifyTorrents(c) ==
    \E torrents \in TorrentSeqs :
        /\ Enter(c, "VerifyTorrents", <<>>, torrents)
        /\ VerifyTorrents(c, torrents)
        /\ UNCHANGED cliVars

CallReannounceTorrents(c) ==
    \E torrents \in TorrentSeqs :
        /\ Enter(c, "ReannounceTorrents", <<>>, torrents)
        /\ ReannounceTorrents(c, torrents)
        /\ UNCHANGED cliVars

CallRemoveTorrents(c) ==
    \E torrents \in TorrentSeqs :
        /\ Enter(c, "RemoveTorrents", <<>>, torrents)
        /\ RemoveTorrents(c, torrents)
        /\ UNCHANGED cliVars

\* The caller takes the result; a panic ends the process instead.
Return(c) ==
    /\ ~Crashed
    /\ pc[c] = "done"
    /\ pc' = [pc EXCEPT ![c] = "idle"]
    /\ entry' = [entry EXCEPT ![c] = NoEntry]
    /\ req' = [req EXCEPT ![c] = NoRequest]
    /\ sent' = [sent EXCEPT ![c] = <<>>]
    /\ resps' = [resps EXCEPT ![c] = <<>>]
    /\ decoded' = [decoded EXCEPT ![c] = <<>>]
    /\ ret' = [ret EXCEPT ![c] = NoReturn]
    /\ UNCHANGED <<t, newArgs, cliVars>>

NoFlags ==
    [address |-> <<>>, username |-> "", password |-> "", list |-> FALSE,
     start |-> -1, startNow |-> -1, stop |-> -1, remove |-> -1]

IdleCalls ==
    /\ pc = [c \in Callers |-> "idle"]
    /\ entry = [c \in Callers |-> NoEntry]
    /\ req = [c \in Callers |-> NoRequest]
    /\ sent = [c \in Callers |-> <<>>]
    /\ resps = [c \in Callers |-> <<>>]
    /\ decoded = [c \in Callers |-> <<>>]
    /\ ret = [c \in Callers |-> NoReturn]

\* The state after New has built the client.
Init ==
    /\ newArgs \in
        [address : CallAddresses, username : Usernames, password : Passwords]
    /\ t = New(newArgs.address, newArgs.username, newArgs.password)
    /\ IdleCalls
    /\ flags = NoFlags
    /\ mainpc = "lib"
    /\ invoked = <<>>
    /\ stdout = <<>>
    /\ exitCode = -1

Call(c) ==
    \/ CallListAll(c)
    \/ CallStart(c)
    \/ CallStartNow(c)
    \/ CallStop(c)
    \/ CallVerify(c)
    \/ CallReannounce(c)
    \/ CallRemove(c)
    \/ CallStartTorrents(c)
    \/ CallStartNowTorrents(c)
    \/ CallStopTorrents(c)
    \/ CallVerifyTorrents(c)
    \/ CallReannounceTorrents(c)
    \/ CallRemoveTorrents(c)

Step(c) ==
    \/ Call(c)
    \/ postRequest(c)
    \/ \E r \in Outcomes(req[c].type) : doRPCFirst(c, r)
    \/ \E r \in Outcomes(req[c].type) : doRPCRetry(c, r)
    \/ Return(c)

\* One goroutine uses the client: the single-threaded use the library is
\* written for.
Next == Step(1)

Spec == Init /\ [][Next]_vars

\* ------------------------------------------------------------------------
\* Two goroutines call methods of the same client
\* ------------------------------------------------------------------------
\* t.sessionId is read (postRequest) and written (doRPC) without a lock.
\* The steps of the two goroutines interleave, so a read sees the value
\* before or after a write of the other goroutine; a read that overlaps
\* the write is a data race, and since a string is a pointer and a length
\* written as two words, it yields the old value, the new value, or, when
\* their lengths differ, a pointer and a length that do not belong together.
\* racingPostRequest is that overlap: d takes the well-formed 409 r and
\* stores its token while c builds a request; c's header has the old or
\* the new token, or c dies reading a nil pointer with the new length.
racingPostRequest(c, d, r) ==
    /\ ~Crashed
    /\ c # d
    /\ pc[c] = "post"
    /\ pc[d] = "wait"
    /\ Len(sent[d]) = 1
    /\ r.kind = "response"
    /\ r.StatusCode = 409
    /\ sessionHeaderError(r.Header) = <<>>
    /\ resps' = [resps EXCEPT ![d] = Append(@, r)]
    /\ t' = storeSessionId(t, r.Header.vals)
    /\ \/ /\ \E read \in {t, t'} :
               sent' = [sent EXCEPT ![c] = Append(@, httpReq(read, req[c]))]
          /\ pc' = [pc EXCEPT ![c] = "wait", ![d] = "post"]
          /\ UNCHANGED ret
       \/ /\ t.sessionId = ""
          /\ pc' = [pc EXCEPT ![c] = "done", ![d] = "post"]
          /\ ret' = [ret EXCEPT ![c] = Panic]
          /\ UNCHANGED sent
    /\ UNCHANGED <<newArgs, entry, req, decoded, cliVars>>

\* What the daemon answers while the two calls run: a transport error, a
\* 409 with any session header, a listing without torrents, or an empty
\* object.
ConcurrentOutcomes ==
    {Failure(e) : e \in TransportErrors}
    \cup {Response(409, h, b) : h \in Headers, b \in ConflictBodies}
    \cup {Response(200, NoHeader,
                   [kind |-> "object", err |-> <<>>, json |-> o]) :
            o \in {NoObject, Object({"result", "tag", "arguments"},
                                    successLiteral, <<>>)}}

\* Each goroutine makes one call.
StepConc(c) ==
    \/ CallListAll(c)
    \/ postRequest(c)
    \/ \E r \in ConcurrentOutcomes : doRPCFirst(c, r)
    \/ \E r \in ConcurrentOutcomes : doRPCRetry(c, r)
    \/ \E d \in Callers : \E r \in ConcurrentOutcomes :
            racingPostRequest(c, d, r)

NextConc == \E c \in Callers : StepConc(c)

SpecConc == Init /\ [][NextConc]_vars

\* ------------------------------------------------------------------------
\* The client against a daemon whose valid session token does not change
\* ------------------------------------------------------------------------
DaemonToken == "abc123"

\* What such a daemon makes of the request sent last: a 409 that names its
\* token when the request carries another one, and anything but a 409 when
\* it carries the token; the transport can fail either way.
DaemonOutcomes(type, requests) ==
    IF requests = <<>> THEN {}
    ELSE IF requests[Len(requests)].Header.csrf = <<DaemonToken>>
    THEN {r \in Outcomes(type) : r.StatusCode # 409}
    ELSE {Failure(e) : e \in TransportErrors}
         \cup {Response(409, [ok |-> TRUE, vals |-> <<DaemonToken>>],
                        Malformed)}

StepDaemon(c) ==
    \/ Call(c)
    \/ postRequest(c)
    \/ \E r \in DaemonOutcomes(req[c].type, sent[c]) : doRPCFirst(c, r)
    \/ \E r \in DaemonOutcomes(req[c].type, sent[c]) : doRPCRetry(c, r)
    \/ Return(c)

NextDaemon == StepDaemon(1)

SpecDaemon == Init /\ [][NextDaemon]_vars

\* ------------------------------------------------------------------------
\* The command line tool (package main)
\* ------------------------------------------------------------------------
FlagIds == {-1} \cup TorrentIds

NoSelection == [op |-> "none", ids |-> <<>>]

\* selected with the checks of stop and start-now swapped.
selectedStopFirst(f) ==
    IF f.list THEN [op |-> "ListAll", ids |-> <<>>]
    ELSE IF f.start # -1 THEN [op |-> "Start", ids |-> <<f.start>>]
    ELSE IF f.stop # -1 THEN [op |-> "Stop", ids |-> <<f.stop>>]
    ELSE IF f.startNow # -1 THEN [op |-> "StartNow", ids |-> <<f.startNow>>]
    ELSE IF f.remove # -1 THEN [op |-> "Remove", ids |-> <<f.remove>>]
    ELSE NoSelection

\* The if / else-if chain of main: the operation the flags select.
selected(f) ==
    IF f.list THEN [op |-> "ListAll", ids |-> <<>>]
    ELSE IF f.start # -1 THEN [op |-> "Start", ids |-> <<f.start>>]
    ELSE IF f.startNow # -1 THEN [op |-> "StartNow", ids |-> <<f.startNow>>]
    ELSE IF f.stop # -1 THEN [op |-> "Stop", ids |-> <<f.stop>>]
    ELSE IF f.remove # -1 THEN [op |-> "Remove", ids |-> <<f.remove>>]
    ELSE NoSelection

\* flag.Parse() has run; main builds the client.
mainNew ==
    /\ mainpc = "new"
    /\ newArgs' = [address |-> flags.address, username |-> flags.username,
                   password |-> flags.password]
    /\ t' = New(flags.address, flags.username, flags.password)
    /\ mainpc' = "dispatch"
    /\ UNCHANGED <<pc, entry, req, sent, resps, decoded, ret,
                   flags, invoked, stdout, exitCode>>

\* main calls the method of the selected operation, or none and returns.
mainDispatch ==
    /\ mainpc = "dispatch"
    /\ LET sel == selected(flags)
       IN IF sel = NoSelection
          THEN /\ mainpc' = "exit"
               /\ exitCode' = 0
               /\ UNCHANGED <<t, newArgs, pc, entry, req, sent, resps,
                              decoded, ret, invoked>>
          ELSE /\ mainpc' = "call"
               /\ invoked' = Append(invoked, sel)
               /\ Enter(1, sel.op, sel.ids, <<>>)
               /\ CASE sel.op = "ListAll" -> ListAll(1)
                    [] sel.op = "Start" -> Start(1, sel.ids)
                    [] sel.op = "StartNow" -> StartNow(1, sel.ids)
                    [] sel.op = "Stop" -> Stop(1, sel.ids)
                    [] sel.op = "Remove" -> Remove(1, sel.ids)
               /\ UNCHANGED exitCode
    /\ UNCHANGED <<flags, stdout>>

RECURSIVE printed(_)
printed(torrents) ==
    IF torrents = <<>> THEN <<>>
    ELSE <<[Id |-> Head(torrents).Id, Status |-> Head(torrents).Status,
            Name |-> Head(torrents).Name]>> \o printed(Tail(torrents))

\* The method has returned: log.Fatalf on an error, the listing on
\* success; a panic ends the process with status 2.
mainReturn ==
    /\ mainpc = "call"
    /\ pc[1] = "done"
    /\ mainpc' = "exit"
    /\ exitCode' = CASE ret[1].kind = "error" -> 1
                     [] ret[1].kind = "panic" -> 2
                     [] OTHER -> 0
    /\ stdout' = IF ret[1].kind = "ok" THEN printed(ret[1].torrents)
                 ELSE stdout
    /\ UNCHANGED <<t, newArgs, pc, entry, req, sent, resps, decoded, ret,
                   flags, invoked>>

InitMain(addresses, listFlags, idFlags) ==
    /\ flags \in
        [address : addresses, username : Usernames, password : Passwords,
         list : listFlags, start : idFlags, startNow : idFlags,
         stop : idFlags, remove : idFlags]
    /\ t = NoClient
    /\ newArgs = [address |-> <<>>, username |-> "", password |-> ""]
    /\ IdleCalls
    /\ mainpc = "new"
    /\ invoked = <<>>
    /\ stdout = <<>>
    /\ exitCode = -1

\* One run of the tool, for every combination of its flags.
InitCLI == InitMain(CallAddresses, BOOLEAN, FlagIds)

NextCLI ==
    \/ mainNew
    \/ mainDispatch
    \/ postRequest(1)
    \/ \E r \in Outcomes(req[1].type) : doRPCFirst(1, r)
    \/ \E r \in Outcomes(req[1].type) : doRPCRetry(1, r)
    \/ mainReturn

SpecCLI == InitCLI /\ [][NextCLI]_vars

\* The construction of the client, for every address.
InitNew == InitMain(AddressInputs, {FALSE}, {-1})

NextNew == mainNew

SpecNew == InitNew /\ [][NextNew]_vars

\* ------------------------------------------------------------------------
\* Properties
\* ------------------------------------------------------------------------
LifecycleOps ==
    {"Start", "StartNow", "Stop", "Verify", "Reannounce", "Remove"}
SnapshotOps ==
    {"StartTorrents", "StartNowTorrents", "StopTorrents", "VerifyTorrents",
     "ReannounceTorrents", "RemoveTorrents"}

IsConflict(r) == r.kind = "response" /\ r.StatusCode = 409
WellFormed(r) == IsConflict(r) /\ r.Header.ok /\ Len(r.Header.vals) = 1
Answered(c) == Len(resps[c]) >= 1

\* C1: a call that got a first response sent exactly one request if that
\* response was not a 409, exactly two if it was a well-formed 409, and no
\* call ever has more than two requests, a 409 on the retry included.
C1_RequestCount ==
    \A c \in Callers :
        /\ Len(sent[c]) <= 2
        /\ (pc[c] = "done" /\ Answered(c)) =>
            /\ ~IsConflict(resps[c][1]) => Len(sent[c]) = 1
            /\ WellFormed(resps[c][1]) => Len(sent[c]) = 2
            /\ (Len(resps[c]) = 2 /\ IsConflict(resps[c][2]))
                  => Len(sent[c]) = 2

C1_Witness ==
    \E c \in Callers :
        /\ pc[c] = "done"
        /\ Len(resps[c]) = 2
        /\ WellFormed(resps[c][2])
        /\ Len(sent[c]) = 2

\* C2: after a first response that is a 409 with exactly one session header
\* value v, the stored token is v when the retry is about to be built, and
\* the retried request carries v.
C2_RetryCarriesToken ==
    \A c \in Callers :
        (Answered(c) /\ WellFormed(resps[c][1])) =>
            /\ pc[c] = "post" => t.sessionId = resps[c][1].Header.vals[1]
            /\ Len(sent[c]) >= 2 =>
                  sent[c][2].Header.csrf = resps[c][1].Header.vals

C2_Witness ==
    \E c \in Callers :
        /\ Answered(c)
        /\ WellFormed(resps[c][1])
        /\ Len(sent[c]) = 2
        /\ sent[c][1].Header.csrf # sent[c][2].Header.csrf
        /\ sent[c][2].Header.csrf = <<"abc123">>

\* C3: a first response that is a 409 whose session header is absent or has
\* not exactly one value ends the call with an error, one request sent.
C3_MalformedConflict ==
    \A c \in Callers :
        (Answered(c) /\ IsConflict(resps[c][1]) /\ ~WellFormed(resps[c][1]))
            => /\ pc[c] = "done"
               /\ ret[c].kind = "error"
               /\ Len(sent[c]) = 1

C3_Witness ==
    \E c \in Callers :
        /\ Answered(c)
        /\ IsConflict(resps[c][1])
        /\ resps[c][1].Header.ok
        /\ Len(resps[c][1].Header.vals) = 2
        /\ ret[c].kind = "error"

\* C4: a lifecycle operation or snapshot variant called with an empty
\* sequence has returned success without sending a request, whatever the
\* state of the client.
C4_EmptyIsNoOp ==
    \A c \in Callers :
        (\/ entry[c].op \in LifecycleOps /\ entry[c].ids = <<>>
         \/ entry[c].op \in SnapshotOps /\ entry[c].torrents = <<>>)
            => /\ pc[c] = "done"
               /\ ret[c] = Ok(<<>>)
               /\ sent[c] = <<>>

C4_Witness ==
    \E c \in Callers :
        /\ entry[c].op = "RemoveTorrents"
        /\ entry[c].torrents = <<>>
        /\ t.sessionId = "abc123"
        /\ ret[c].kind = "ok"

\* The response whose body the call decoded carried a result string.
HasResult(c) ==
    /\ decoded[c] # <<>>
    /\ decoded[c][1].kind = "object"
    /\ "result" \in decoded[c][1].json.keys

\* C5: a decoded envelope whose result string is not "success" makes the
\* operation return an error whose text is that result string, and only
\* "success" gives a return without error.
C5_ErrorTextIsResult ==
    \A c \in Callers :
        (pc[c] = "done" /\ HasResult(c)) =>
            /\ decoded[c][1].json.result # successLiteral
                  => ret[c] = Error(decoded[c][1].json.result)
            /\ ret[c].kind = "ok"
                  => decoded[c][1].json.result = successLiteral

\* C6: a transport failure of the first request or of the retry ends the
\* call with that error: no request follows it and no body is decoded.
C6_TransportFailureEndsCall ==
    \A c \in Callers :
        \A i \in 1..Len(resps[c]) :
            resps[c][i].kind = "error" =>
                /\ pc[c] = "done"
                /\ Len(sent[c]) = i
                /\ Len(resps[c]) = i
                /\ decoded[c] = <<>>
                /\ ret[c] = Error(resps[c][i].err)

C6_Witness ==
    \E c \in Callers :
        /\ Len(resps[c]) = 2
        /\ resps[c][2].kind = "error"
        /\ pc[c] = "done"

\* C8: a response with a status other than 409 ends the call without a
\* retry, its body goes to the decoder if it can be read, and the call
\* fails only for the body: when the envelope has a result string, the call
\* returns an error exactly when that string is not "success".
C8_StatusNotInspected ==
    \A c \in Callers :
        \A i \in 1..Len(resps[c]) :
            (resps[c][i].kind = "response" /\ resps[c][i].StatusCode # 409)
            => /\ pc[c] = "done"
               /\ Len(sent[c]) = i
               /\ Len(resps[c]) = i
               /\ resps[c][i].Body.kind # "unreadable"
                     => decoded[c] = <<resps[c][i].Body>>
               /\ resps[c][i].Body.kind = "object"
                     => ret[c] = MethodResult(req[c].type,
                            Decode(resps[c][i].Body.json, req[c].type))
               /\ HasResult(c) =>
                     (ret[c].kind = "error"
                        <=> decoded[c][1].json.result # successLiteral)

C8_Witness ==
    \E c \in Callers :
        /\ Len(resps[c]) = 1
        /\ resps[c][1].kind = "response"
        /\ resps[c][1].StatusCode = 500
        /\ ret[c].kind = "ok"

\* C9: every request sent, first attempt and retry, carries Basic
\* credentials exactly when the configured user name and password are both
\* non-empty, and then it carries those two.
C9_BasicAuth ==
    \A c \in Callers :
        \A i \in 1..Len(sent[c]) :
            /\ sent[c][i].BasicAuth.ok
                  <=> (newArgs.username # "" /\ newArgs.password # "")
            /\ sent[c][i].BasicAuth.ok =>
                  /\ sent[c][i].BasicAuth.username = newArgs.username
                  /\ sent[c][i].BasicAuth.password = newArgs.password

C9_Witness ==
    \E c \in Callers :
        /\ Len(sent[c]) = 2
        /\ sent[c][2].BasicAuth.ok
        /\ sent[c][2].BasicAuth.username = "user"

\* The address has a URL scheme.
HasScheme(a) == HasPrefix(a, httpScheme) \/ HasPrefix(a, httpsScheme)

\* C7: the stored address starts with http:// or https:// and ends with
\* /transmission/rpc; http:// is prepended only to an input without scheme,
\* the path appended only to an input without it, and an input with both
\* is stored unchanged.
C7_AddressNormalized ==
    mainpc # "new" =>
        /\ HasScheme(t.address)
        /\ HasSuffix(t.address, rpcPath)
        /\ HasScheme(newArgs.address) => HasPrefix(t.address, newArgs.address)
        /\ HasSuffix(newArgs.address, rpcPath)
              => HasSuffix(t.address, newArgs.address)
        /\ (HasScheme(newArgs.address) /\ HasSuffix(newArgs.address, rpcPath))
              => t.address = newArgs.address

\* The operations in the priority order of the flags that select them.
FirstSet(f) ==
    IF f.list THEN <<[op |-> "ListAll", ids |-> <<>>]>>
    ELSE IF f.start # -1 THEN <<[op |-> "Start", ids |-> <<f.start>>]>>
    ELSE IF f.startNow # -1
         THEN <<[op |-> "StartNow", ids |-> <<f.startNow>>]>>
    ELSE IF f.stop # -1 THEN <<[op |-> "Stop", ids |-> <<f.stop>>]>>
    ELSE IF f.remove # -1 THEN <<[op |-> "Remove", ids |-> <<f.remove>>]>>
    ELSE <<>>

\* C10 as stated: whatever the flags, a finished run has invoked exactly
\* one client operation, the first one set in the order list, start,
\* start-now, stop, remove.
C10_ExactlyOneOperation ==
    mainpc = "exit" => (Len(invoked) = 1 /\ invoked = FirstSet(flags))

\* C10 amended: a finished run has invoked at most one client operation:
\* if list is set or an identifier flag is not -1, exactly the first one
\* set in the order list, start, start-now, stop, remove; if none is set,
\* no operation at all.
C10_AtMostOneOperation ==
    /\ Len(invoked) <= 1
    /\ mainpc \in {"call", "exit"} =>
        /\ invoked = FirstSet(flags)
        /\ Len(invoked) = 0 <=>
              (/\ ~flags.list
               /\ flags.start = -1
               /\ flags.startNow = -1
               /\ flags.stop = -1
               /\ flags.remove = -1)

C10_Witness ==
    /\ mainpc = "exit"
    /\ ~flags.list
    /\ flags.start = -1
    /\ flags.startNow = 2
    /\ flags.stop = 1
    /\ flags.remove = 1
    /\ invoked = <<[op |-> "StartNow", ids |-> <<2>>]>>
\* C11: when the answer to torrent-get decodes to an envelope whose result
\* is "success" and that has an arguments object, ListAll returns one record
\* for each element of its "torrents" array, in the array's order, with the
\* values of that element; nothing is sorted, dropped, added or merged.
ListedAnswer(c) ==
    /\ entry[c].op = "ListAll"
    /\ pc[c] = "done"
    /\ HasResult(c)
    /\ decoded[c][1].json.result = successLiteral
    /\ "arguments" \in decoded[c][1].json.keys
C11_ListingOrderKept ==
    \A c \in Callers :
        ListedAnswer(c) =>
            /\ ret[c].kind = "ok"
            /\ Len(ret[c].torrents) = Len(decoded[c][1].json.torrents)
            /\ \A i \in 1..Len(ret[c].torrents) :
                 LET j == decoded[c][1].json.torrents[i]
                     r == ret[c].torrents[i]
                 IN /\ r.Id = (IF "id" \in j.keys THEN j.id ELSE 0)
                    /\ r.Name = (IF "name" \in j.keys THEN j.name ELSE "")
                    /\ r.Status =
                         (IF "status" \in j.keys THEN j.status ELSE 0)

\* A listing of two elements for the same torrent comes back as two records.
C11_Witness ==
    /\ ListedAnswer(1)
    /\ Len(decoded[1][1].json.torrents) = 2
    /\ decoded[1][1].json.torrents[1].id = decoded[1][1].json.torrents[2].id
    /\ Len(ret[1].torrents) = 2
    /\ ret[1].torrents[1].Id = 2

\* The method name each lifecycle operation and its snapshot variant sends.
MethodOf(op) ==
    CASE op \in {"Start", "StartTorrents"} -> "torrent-start"
      [] op \in {"StartNow", "StartNowTorrents"} -> "torrent-start-now"
      [] op \in {"Stop", "StopTorrents"} -> "torrent-stop"
      [] op \in {"Verify", "VerifyTorrents"} -> "torrent-verify"
      [] op \in {"Reannounce", "ReannounceTorrents"} -> "torrent-reannounce"
      [] op \in {"Remove", "RemoveTorrents"} -> "torrent-remove"
      [] OTHER -> ""

\* ids is the sequence of the Id fields of torrents, position by position.
IdsOfSnapshots(ids, torrents) ==
    /\ Len(ids) = Len(torrents)
    /\ \A i \in 1..Len(ids) : ids[i] = torrents[i].Id

\* The step that enters a snapshot variant is the step of its id-based
\* form on the Id fields of the snapshots.
SnapshotStepIsIdStep(c) ==
    \E ids \in IdSeqs :
        /\ IdsOfSnapshots(ids, entry'[c].torrents)
        /\ CASE entry'[c].op = "StartTorrents" -> Start(c, ids)
             [] entry'[c].op = "StartNowTorrents" -> StartNow(c, ids)
             [] entry'[c].op = "StopTorrents" -> Stop(c, ids)
             [] entry'[c].op = "VerifyTorrents" -> Verify(c, ids)
             [] entry'[c].op = "ReannounceTorrents" -> Reannounce(c, ids)
             [] entry'[c].op = "RemoveTorrents" -> Remove(c, ids)

\* Every request of a snapshot call names the method of the id-based form
\* and lists the Id fields of the snapshots; without snapshots none is sent.
SnapshotRequests(c) ==
    entry[c].op \in SnapshotOps =>
        /\ entry[c].torrents = <<>> => sent[c] = <<>> /\ ret[c] = Ok(<<>>)
        /\ \A i \in 1..Len(sent[c]) :
             /\ sent[c][i].Body.method = MethodOf(entry[c].op)
             /\ sent[c][i].Body.arguments.keys = {"ids"}
             /\ IdsOfSnapshots(sent[c][i].Body.arguments.ids,
                               entry[c].torrents)

\* C12: each snapshot variant (StartTorrents, StartNowTorrents, StopTorrents,
\* VerifyTorrents, ReannounceTorrents, RemoveTorrents) does what its id-based
\* form does when called with the Id fields of the snapshots in input order,
\* duplicates kept: entering it is the same step, so the same requests are
\* sent and the same result is returned.
C12_SnapshotsAsIds ==
    /\ [](\A c \in Callers : SnapshotRequests(c))
    /\ [][\A c \in Callers :
            (pc[c] = "idle" /\ entry'[c].op \in SnapshotOps)
                => SnapshotStepIsIdStep(c)]_vars

\* StopTorrents of two snapshots of torrent 2 has sent torrent-stop for
\* the identifiers 2, 2 and has returned without error.
C12_Witness ==
    /\ entry[1].op = "StopTorrents"
    /\ Len(entry[1].torrents) = 2
    /\ entry[1].torrents[1] = entry[1].torrents[2]
    /\ pc[1] = "done"
    /\ ret[1].kind = "ok"
    /\ Len(sent[1]) = 1
    /\ sent[1][1].Body.arguments.ids = <<2, 2>>

\* The step sends a request of caller c.
Sends(c) == Len(sent'[c]) = Len(sent[c]) + 1

\* C13: every request carries the X-Transmission-Session-Id header with one
\* value, the token the client stores at the moment the request is sent; a
\* newly constructed client stores the empty token, so that is what its
\* first request carries.
C13_HeaderIsStoredToken ==
    /\ t.sessionId = ""
    /\ [](\A c \in Callers : \A i \in 1..Len(sent[c]) :
            Len(sent[c][i].Header.csrf) = 1)
    /\ [][\A c \in Callers :
            Sends(c) =>
                sent'[c][Len(sent'[c])].Header.csrf = <<t.sessionId>>]_vars

\* A call made after a handshake is waiting for the answer to its first
\* request, which carries the stored token; the one before carried "".
C13_Witness ==
    /\ pc[1] = "wait"
    /\ Len(sent[1]) = 1
    /\ t.sessionId = "def456"
    /\ sent[1][1].Header.csrf = <<"def456">>

\* The step takes the first response of a call of c, a well-formed 409.
TakesHandshake(c) ==
    /\ Len(resps[c]) = 0
    /\ Len(resps'[c]) = 1
    /\ WellFormed(resps'[c][1])

\* C14: a call changes the stored token only by storing the one header
\* value of a 409 that is its first response.  A call that has returned
\* leaves the token at that value if its first response was such a 409 and
\* otherwise at the token its first request carried, the one stored before
\* the call; a step that is not the receipt of such a 409 (a success with a
\* session header, a transport error, a malformed 409, a 409 for the retry,
\* a call with no identifiers) leaves the token as it was.
C14_TokenFrame ==
    /\ [](\A c \in Callers :
            (pc[c] = "done" /\ Len(sent[c]) >= 1) =>
                t.sessionId =
                    IF WellFormed(resps[c][1])
                    THEN resps[c][1].Header.vals[1]
                    ELSE sent[c][1].Header.csrf[1])
    /\ [][\A c \in Callers :
            IF TakesHandshake(c)
            THEN t'.sessionId = resps'[c][1].Header.vals[1]
            ELSE (pc[c] # pc'[c] \/ resps[c] # resps'[c])
                    => t'.sessionId = t.sessionId]_vars

\* The retry was answered with a 409 that names another token: the stored
\* token is still the one of the first 409.
C14_Witness ==
    /\ pc[1] = "done"
    /\ Len(resps[1]) = 2
    /\ WellFormed(resps[1][1])
    /\ WellFormed(resps[1][2])
    /\ resps[1][2].Header.vals # resps[1][1].Header.vals
    /\ t.sessionId = resps[1][1].Header.vals[1]

\* C15: the token stored by a handshake stays stored when the call returns
\* and is what the first request of every later call carries.  Against a
\* daemon whose valid token does not change, the client stores no token or
\* the daemon's; once it stores the daemon's it keeps it; only a call begun
\* without it sends a second request, and that call leaves it stored; so
\* every call after the first handshake sends exactly one request.
C15_TokenPersists ==
    /\ [](t.sessionId \in {"", DaemonToken})
    /\ [](\A c \in Callers :
            Len(sent[c]) = 2 =>
                /\ sent[c][1].Header.csrf = <<"">>
                /\ sent[c][2].Header.csrf = <<DaemonToken>>
                /\ t.sessionId = DaemonToken)
    /\ [][t.sessionId = DaemonToken => t'.sessionId = DaemonToken]_vars
    /\ [][\A c \in Callers :
            (Sends(c) /\ Len(sent[c]) = 0) =>
                sent'[c][1].Header.csrf = <<t.sessionId>>]_vars

\* A call made after the handshake has returned without error after one
\* request, which carried the daemon's token.
C15_Witness ==
    /\ pc[1] = "done"
    /\ ret[1].kind = "ok"
    /\ Len(sent[1]) = 1
    /\ sent[1][1].Header.csrf = <<DaemonToken>>
    /\ t.sessionId = DaemonToken

\* C16: the request of the retry is the first request again: the same
\* method name, tag and arguments (the same body), sent to the same URL with
\* the same credentials; the two differ only in the session token.
C16_RetrySameRequest ==
    \A c \in Callers :
        Len(sent[c]) = 2 =>
            /\ sent[c][2].Body.method = sent[c][1].Body.method
            /\ sent[c][2].Body.tag = sent[c][1].Body.tag
            /\ sent[c][2].Body.arguments = sent[c][1].Body.arguments
            /\ sent[c][2].Body = sent[c][1].Body
            /\ sent[c][2].Method = sent[c][1].Method
            /\ sent[c][2].URL = sent[c][1].URL
            /\ sent[c][2].BasicAuth = sent[c][1].BasicAuth

\* torrent-verify for the identifiers 2, 1 was sent twice, with different
\* tokens.
C16_Witness ==
    /\ Len(sent[1]) = 2
    /\ sent[1][1].Body.method = "torrent-verify"
    /\ sent[1][1].Body.arguments.ids = <<2, 1>>
    /\ sent[1][2].Body.arguments.ids = <<2, 1>>
    /\ sent[1][1].Header # sent[1][2].Header

\* C17: a lifecycle operation called with a non-empty identifier list sends
\* a request, and every request it sends names the operation's own method
\* (Start torrent-start, StartNow torrent-start-now, Stop torrent-stop,
\* Verify torrent-verify, Reannounce torrent-reannounce, Remove
\* torrent-remove) and has one argument, "ids", the input list in order.
C17_MethodAndIds ==
    \A c \in Callers :
        (entry[c].op \in LifecycleOps /\ entry[c].ids # <<>>) =>
            /\ pc[c] = "done" => Len(sent[c]) >= 1
            /\ \A i \in 1..Len(sent[c]) :
                 /\ sent[c][i].Body.method = MethodOf(entry[c].op)
                 /\ sent[c][i].Body.arguments.keys = {"ids"}
                 /\ sent[c][i].Body.arguments.ids = entry[c].ids

\* Reannounce(2, 1) has sent torrent-reannounce with ids 2, 1.
C17_Witness ==
    /\ entry[1].op = "Reannounce"
    /\ entry[1].ids = <<2, 1>>
    /\ Len(sent[1]) = 1
    /\ sent[1][1].Body.method = "torrent-reannounce"
    /\ sent[1][1].Body.arguments.ids = <<2, 1>>

\* The tokens that the first responses of the calls in progress named.
HandshakeTokens ==
    {resps[d][1].Header.vals[1] :
        d \in {e \in Callers : Answered(e) /\ WellFormed(resps[e][1])}}

\* C18: with two calls running on the same client, the request of a retry
\* carries whatever token is stored when it is built: the token of the
\* call's own 409, or the token that the other call's 409 stored in
\* between.  The second case is reachable (C18_Witness): the retried
\* request then carries a token other than the one its own 409 returned.
C18_RetryCarriesSomeHandshakeToken ==
    \A c \in Callers :
        Len(sent[c]) = 2 => sent[c][2].Header.csrf[1] \in HandshakeTokens

\* Call 1 stored the token of its 409, call 2 overwrote it with the token
\* of its own 409, and the retry of call 1 carries the token of call 2.
C18_Witness ==
    /\ Len(sent[1]) = 2
    /\ WellFormed(resps[1][1])
    /\ Answered(2)
    /\ WellFormed(resps[2][1])
    /\ sent[1][2].Header.csrf # resps[1][1].Header.vals
    /\ sent[1][2].Header.csrf = resps[2][1].Header.vals

\* The body of the response that ended the call decoded as a JSON object.
DecodedObject(c) ==
    /\ pc[c] = "done"
    /\ decoded[c] # <<>>
    /\ decoded[c][1].kind = "object"

\* C19: whenever the response body decodes as a JSON object without a
\* decode error (an envelope without a result field and a "success" envelope
\* without an arguments object included), ListAll and every lifecycle
\* operation return a value or an error: no call ends in a crash.
C19_NoCrash ==
    \A c \in Callers :
        DecodedObject(c) => ret[c].kind \in {"ok", "error"}

====
